---- MODULE Spec2Model ----
(***************************************************************************)
(* dubplate: an immutable, validated, dict-like Record with side           *)
(* attributes (src/dubplate/__init__.py).                                  *)
(*                                                                         *)
(* Spec     a record type is picked, one instance is constructed through   *)
(*          TstRecord.__init__ / Record.__init__ / Record._set_record, and *)
(*          the public operations are called on it one call at a time.     *)
(* SpecGen  generate_hash_index_key as a pure function of its arguments.   *)
(***************************************************************************)
EXTENDS Integers, Sequences, FiniteSets, TLC

VARIABLES
    cls,    \* the record type (class variables) of the instance under test
    rec,    \* the instance: NoRecord until __init__ has returned
    last,   \* the call that returned or raised last, with its arguments
    call    \* SpecGen: the arguments of the pending pure-function call

vars == <<cls, rec, last, call>>

-----------------------------------------------------------------------------
(* Bounds *)

\* most keyword arguments given to a constructor
MaxKwargs == 2
\* most keyword arguments given to copy_record, and to the constructor of the
\* second record of a comparison
MaxOverrides == 2
\* longest `fields` argument of generate_hash_index_key
MaxGenFields == 2
\* most entries of its `values_dict` argument
MaxGenValues == 2
\* json: nesting depth of a value, and number of keyword arguments
MaxJsonDepth == 2
MaxJsonFields == 1

-----------------------------------------------------------------------------
(* Python values, tagged by type *)

None == [t |-> "none"]
IntV(n) == [t |-> "int", i |-> n]
StrV(s) == [t |-> "str", s |-> s]
BoolV(b) == [t |-> "bool", b |-> b]
FloatV(n) == [t |-> "float", f |-> n]
\* list / tuple of values; dict / set as the sequence of their entries
ListV(xs) == [t |-> "list", xs |-> xs]
TupleV(xs) == [t |-> "tuple", xs |-> xs]
DictV(m) == [t |-> "dict", m |-> m]
SetV(xs) == [t |-> "set", xs |-> xs]

\* `x is None`
IsNone(v) == v.t = "none"

-----------------------------------------------------------------------------
(* Mappings (dict, kwargs, frozendict, FrozenOrderedDict): the sequence of  *)
(* their items in iteration order, keys distinct                            *)

Item(k, v) == [k |-> k, v |-> v]

KeySeq(m) == [i \in 1..Len(m) |-> m[i].k]

Keys(m) == {m[i].k : i \in 1..Len(m)}

HasKey(m, key) == \E i \in 1..Len(m) : m[i].k = key

\* m.get(key, default)
Get(m, key, default) ==
    IF HasKey(m, key)
    THEN m[CHOOSE i \in 1..Len(m) : m[i].k = key].v
    ELSE default

\* the (key, value) pairs of a mapping, order forgotten
Pairs(m) == {<<m[i].k, m[i].v>> : i \in 1..Len(m)}

\* dict(m, **kw): a key of m keeps its place and takes kw's value, a new key
\* is appended in kw's order
RECURSIVE DictUpdate(_, _)
DictUpdate(m, kw) ==
    IF kw = <<>> THEN m
    ELSE LET it == Head(kw)
             m1 == IF HasKey(m, it.k)
                   THEN [i \in 1..Len(m) |-> IF m[i].k = it.k THEN it ELSE m[i]]
                   ELSE Append(m, it)
         IN DictUpdate(m1, Tail(kw))

\* every mapping of at most n items over the given keys and values
MappingsOver(names, values, n) ==
    UNION {{m \in [1..len -> [k : names, v : values]] :
               \A i, j \in 1..len : m[i].k = m[j].k => i = j} : len \in 0..n}

SeqToSet(s) == {s[i] : i \in 1..Len(s)}

-----------------------------------------------------------------------------
(* Strings *)

\* sorted(names): the names the model uses, in lexicographic order
SortedNames == <<"a", "bb", "c", "d", "service", "test">>

Sorted(S) == SelectSeq(SortedNames, LAMBDA n : n \in S)

\* sep.join(parts)
RECURSIVE Join(_, _)
Join(parts, sep) ==
    IF parts = <<>> THEN ""
    ELSE IF Len(parts) = 1 THEN parts[1]
    ELSE parts[1] \o sep \o Join(Tail(parts), sep)

\* iteration order of a set of strings: it follows the strings' hashes, which
\* differ from one interpreter run to the next; `seed` picks the run
SetIter(S, seed) ==
    IF seed = 0 THEN Sorted(S)
    ELSE LET up == Sorted(S) IN [i \in 1..Len(up) |-> up[Len(up) + 1 - i]]

Seeds == {0, 1}

-----------------------------------------------------------------------------
(* Outcomes of a call *)

Returned(v) == [st |-> "return", val |-> v]
Raised(e) == [st |-> "raise", err |-> e]

\* KeyError raised by _set_record. plural: the message uses the plural
\* wording; names: the field names in the order the message lists them
KeyError(kind, plural, names) ==
    [exc |-> "KeyError", kind |-> kind, plural |-> plural, names |-> names]

\* TypeError("'<class>' object does not support <what>")
TypeError(what) ==
    [exc |-> "TypeError", kind |-> what, plural |-> FALSE, names |-> <<>>]

\* ValueError("Fields that return unordered value types ... field: <field>")
ValueError(field) ==
    [exc |-> "ValueError", kind |-> "unordered value type", plural |-> FALSE,
     names |-> <<field>>]

-----------------------------------------------------------------------------
(* Record types: the class variables of a subclass of TstRecord.  A class   *)
(* variable that is not defined is the empty tuple (getattr's default).     *)

FieldsChoices == {<<>>, <<"c">>, <<"a", "bb", "c">>}
NonNullChoices == {<<>>, <<"bb">>, <<"a", "bb">>}
HashIndexChoices == {<<>>, <<"a", "bb">>, <<"test", "a", "bb">>}

\* every combination of fields, non_null_fields and require_all_fields
\* (require_all_fields is read only when fields is defined), and the record
\* types that define hash_index_fields
Classes ==
    {c \in [name : {"TstRecord"},
            slots : {<<"service", "test">>},
            fields : FieldsChoices,
            non_null_fields : NonNullChoices,
            require_all_fields : BOOLEAN,
            hash_index_fields : {<<>>}] :
        c.require_all_fields => c.fields # <<>>}
    \cup
    [name : {"TstRecord"},
     slots : {<<"service", "test">>},
     fields : {<<>>, <<"a", "bb", "c">>},
     non_null_fields : {<<>>},
     require_all_fields : {FALSE},
     hash_index_fields : HashIndexChoices]

\* keyword names and values the callers use
FieldNames == {"a", "bb", "c", "d"}
FieldValues == {None, IntV(0), IntV(1)}
\* side attributes of the instance under test, and of the instances it is
\* compared with
ServiceValues == {StrV("s1")}
TestValues == {StrV("t1")}
OtherServiceValues == {StrV("s2")}
\* keys of the instances and mappings it is compared with
OtherNames == {"a", "bb", "c"}

-----------------------------------------------------------------------------
(* The instance *)

\* object.__new__: no slot is set yet
NewObject == [initialized |-> FALSE, attrs |-> <<>>,
              record |-> [ordered |-> FALSE, items |-> <<>>]]

NoRecord == [initialized |-> FALSE, attrs |-> <<>>,
             record |-> [ordered |-> FALSE, items |-> <<>>], absent |-> TRUE]

\* faulty variant: __init__ never sets _initialized
InitializedNever(obj) == FALSE

\* getattr(self, '_initialized', None)
Initialized(obj) == obj.initialized

\* self.require_all_fields: the class variable, else the slot __init__ set
RequireAllFields(c, obj) ==
    IF c.require_all_fields THEN TRUE
    ELSE Get(obj.attrs, "require_all_fields", BoolV(FALSE)).b

\* Record.__setattr__: [obj |-> the object afterwards, out |-> the outcome]
SetAttr(obj, name, value) ==
    IF Initialized(obj)
    THEN [obj |-> obj, out |-> Raised(TypeError("attribute assignment"))]
    ELSE [obj |-> [obj EXCEPT !.attrs = DictUpdate(@, <<Item(name, value)>>)],
          out |-> Returned(None)]

\* Record.__delattr__
DelAttr(obj, name) ==
    IF Initialized(obj)
    THEN [obj |-> obj, out |-> Raised(TypeError("attribute deletion"))]
    ELSE [obj |-> [obj EXCEPT !.attrs = SelectSeq(@, LAMBDA it : it.k # name)],
          out |-> Returned(None)]

\* Record.__setitem__
SetItem(obj, name, value) ==
    [obj |-> obj, out |-> Raised(TypeError("item assignment"))]

\* Record.__delitem__
DelItem(obj, name) ==
    [obj |-> obj, out |-> Raised(TypeError("item deletion"))]

-----------------------------------------------------------------------------
(* Record._set_record *)

\* keys > set(fields), keys < set(fields)
ProperSuperset(A, B) == B \subseteq A /\ A # B
ProperSubset(A, B) == A \subseteq B /\ A # B

FrozenOrderedDict(items) == [ordered |-> TRUE, items |-> items]
frozendict(items) == [ordered |-> FALSE, items |-> items]

\* faulty variant: fail fast, only the first absent name is reported
MissingNamesFirst(non_null_fields, keys) ==
    LET missing == Sorted(non_null_fields \ keys)
    IN  IF missing = <<>> THEN <<>> ELSE <<missing[1]>>

\* sorted(non_null_fields - keys)
MissingNames(non_null_fields, keys) == Sorted(non_null_fields \ keys)

\* [field for field in non_null_fields if record[field] is None]
NullFields(non_null_fields, record) ==
    {f \in non_null_fields : IsNone(Get(record, f, None))}

\* keys > set(fields)
HasExtraKeys(keys, fields) == ProperSuperset(keys, SeqToSet(fields))

\* keys < set(fields)
HasMissingKeys(keys, fields) == ProperSubset(keys, SeqToSet(fields))

\* faulty variant: the declared fields in the order they were supplied, the ones
\* not supplied last
OrderedItemsAsSupplied(fields, record) ==
    LET given == SelectSeq(record, LAMBDA it : it.k \in SeqToSet(fields))
        rest == SelectSeq(fields, LAMBDA f : ~HasKey(record, f))
    IN  given \o [i \in 1..Len(rest) |-> Item(rest[i], None)]

\* [(field, record.get(field, None)) for field in fields]
OrderedItems(fields, record) ==
    [i \in 1..Len(fields) |-> Item(fields[i], Get(record, fields[i], None))]

\* faulty variant: the checks against `fields` come first
SetRecordFieldsFirst(c, obj, record, seed) ==
    LET fields == c.fields
        non_null_fields == SeqToSet(c.non_null_fields)
        keys == Keys(record)
        missingNames == MissingNames(non_null_fields, keys)
        missing == Join(missingNames, ", ")
        null_fields == NullFields(non_null_fields, record)
    IN  IF fields # <<>> /\ HasExtraKeys(keys, fields)
        THEN Raised(KeyError("Extra keys", FALSE,
                             SetIter(keys \ SeqToSet(fields), seed)))
        ELSE IF fields # <<>> /\ HasMissingKeys(keys, fields)
                /\ RequireAllFields(c, obj)
        THEN Raised(KeyError("Missing keys", FALSE,
                             SetIter(SeqToSet(fields) \ keys, seed)))
        ELSE IF non_null_fields # {} /\ missing # ""
        THEN Raised(KeyError("required", Len(missing) > 1, missingNames))
        ELSE IF non_null_fields # {} /\ null_fields # {}
        THEN Raised(KeyError("can not be None", Cardinality(null_fields) > 1,
                             Sorted(null_fields)))
        ELSE IF fields # <<>>
        THEN Returned(FrozenOrderedDict(OrderedItems(fields, record)))
        ELSE Returned(frozendict(record))

\* Record._set_record(record): the frozen mapping, or the KeyError
SetRecord(c, obj, record, seed) ==
    LET fields == c.fields
        non_null_fields == SeqToSet(c.non_null_fields)
        keys == Keys(record)
        missingNames == MissingNames(non_null_fields, keys)
        missing == Join(missingNames, ", ")
        null_fields == NullFields(non_null_fields, record)
    IN  IF non_null_fields # {} /\ missing # ""
        THEN Raised(KeyError("required", Len(missing) > 1, missingNames))
        ELSE IF non_null_fields # {} /\ null_fields # {}
        THEN Raised(KeyError("can not be None", Cardinality(null_fields) > 1,
                             Sorted(null_fields)))
        ELSE IF fields # <<>>
        THEN IF HasExtraKeys(keys, fields)
             THEN Raised(KeyError("Extra keys", FALSE,
                                  SetIter(keys \ SeqToSet(fields), seed)))
             ELSE IF HasMissingKeys(keys, fields) /\ RequireAllFields(c, obj)
             THEN Raised(KeyError("Missing keys", FALSE,
                                  SetIter(SeqToSet(fields) \ keys, seed)))
             ELSE Returned(FrozenOrderedDict(OrderedItems(fields, record)))
        ELSE Returned(frozendict(record))

-----------------------------------------------------------------------------
(* Reads *)

\* Record.__getitem__: self.__record[name]
GetItemOf(obj, name) ==
    IF HasKey(obj.record.items, name)
    THEN Returned(Get(obj.record.items, name, None))
    ELSE Raised([exc |-> "KeyError", kind |-> "key", plural |-> FALSE,
                 names |-> <<name>>])

\* Record.get
GetOf(obj, key, default) == Returned(Get(obj.record.items, key, default))

\* Record.keys, Record.__iter__
KeysOf(obj) == Returned(KeySeq(obj.record.items))

\* Record.values
ValuesOf(obj) ==
    Returned([i \in 1..Len(obj.record.items) |-> obj.record.items[i].v])

\* Record.items
ItemsOf(obj) == Returned(obj.record.items)

\* Record.__len__
LenOf(obj) == Returned(IntV(Len(obj.record.items)))

\* Record.__contains__
ContainsOf(obj, name) == Returned(BoolV(HasKey(obj.record.items, name)))

-----------------------------------------------------------------------------
(* Equality and hash *)

\* Mapping.__eq__: dict(self.items()) == dict(other.items())
MappingEq(m1, m2) == Pairs(m1) = Pairs(m2)

\* faulty variant: side attributes take part in the comparison of two records
RecordEqWithAttrs(obj, other) ==
    IF other.t = "record"
    THEN /\ MappingEq(obj.record.items, other.obj.record.items)
         /\ obj.attrs = other.obj.attrs
    ELSE MappingEq(other.m, obj.record.items)

\* Record.__eq__(self, other): other == self.__record; a Record on the other
\* side compares its own __record in turn
RecordEq(obj, other) ==
    IF other.t = "record"
    THEN MappingEq(obj.record.items, other.obj.record.items)
    ELSE MappingEq(other.m, obj.record.items)

\* Record.__ne__
RecordNe(obj, other) == ~RecordEq(obj, other)

RECURSIVE Xor(_, _)
Xor(x, y) ==
    IF x = 0 THEN y
    ELSE IF y = 0 THEN x
    ELSE (((x % 2) + (y % 2)) % 2) + 2 * Xor(x \div 2, y \div 2)

\* hash(value), hash(name): small distinct integers
HashOfValue(v) ==
    CASE v.t = "none" -> 5
      [] v.t = "int" -> v.i
      [] v.t = "bool" -> IF v.b THEN 1 ELSE 0
      [] v.t = "str" -> 7 + Len(v.s)
      [] OTHER -> 6

HashOfName(k) == CHOOSE i \in 1..Len(SortedNames) : SortedNames[i] = k

\* hash((key, value))
HashOfItem(it) == 16 * HashOfName(it.k) + HashOfValue(it.v)

\* frozendict.__hash__: the xor of the hashes of the items
RECURSIVE FrozenHash(_)
FrozenHash(m) ==
    IF m = <<>> THEN 0 ELSE Xor(HashOfItem(Head(m)), FrozenHash(Tail(m)))

\* Record.__hash__
RecordHash(obj) == FrozenHash(obj.record.items)

-----------------------------------------------------------------------------
(* copy_record *)

\* frozendict.copy(**add_or_replace): self.__class__(self, **add_or_replace)
FrozenCopy(fd, kwargs) == [fd EXCEPT !.items = DictUpdate(@, kwargs)]

\* Record.copy_record(**kwargs)
CopyRecord(c, obj, kwargs, seed) ==
    SetRecord(c, obj, FrozenCopy(obj.record, kwargs).items, seed)

\* faulty variant: copy_record updates self.__record in place
SelfAfterCopyInPlace(obj, kwargs) ==
    [obj EXCEPT !.record = FrozenCopy(@, kwargs)]

\* self after copy_record: copy() builds a new frozendict, self.__record is
\* not assigned
SelfAfterCopy(obj, kwargs) == obj

-----------------------------------------------------------------------------
(* generate_hash_index_key *)

\* bool(value)
Truthy(v) ==
    CASE v.t = "none" -> FALSE
      [] v.t = "int" -> v.i # 0
      [] v.t = "bool" -> v.b
      [] v.t = "float" -> v.f # 0
      [] v.t = "str" -> v.s # ""
      [] v.t \in {"list", "tuple", "set"} -> v.xs # <<>>
      [] v.t = "dict" -> v.m # <<>>
      [] v.t = "record" -> v.obj.record.items # <<>>
      [] OTHER -> TRUE

\* isinstance(value, (Sequence, int))
IsSequenceOrInt(v) == v.t \in {"str", "list", "tuple", "int", "bool"}

\* repr(value) for the values that are put in lists, str(value)
RECURSIVE Repr(_)
Repr(v) ==
    CASE v.t = "none" -> "None"
      [] v.t = "int" -> ToString(v.i)
      [] v.t = "bool" -> IF v.b THEN "True" ELSE "False"
      [] v.t = "str" -> "'" \o v.s \o "'"
      [] v.t = "list" ->
            "[" \o Join([i \in 1..Len(v.xs) |-> Repr(v.xs[i])], ", ") \o "]"
      [] v.t = "tuple" ->
            "(" \o Join([i \in 1..Len(v.xs) |-> Repr(v.xs[i])], ", ")
                \o (IF Len(v.xs) = 1 THEN "," ELSE "") \o ")"
      [] OTHER -> "<" \o v.t \o ">"

Str(v) == IF v.t = "str" THEN v.s ELSE Repr(v)

\* the loop over fields: the segments collected, or the ValueError
RECURSIVE FieldValuesOf(_, _, _)
FieldValuesOf(fields, values_dict, field_values) ==
    IF fields = <<>> THEN Returned(field_values)
    ELSE LET field == Head(fields)
             value == Get(values_dict, field, None)
         IN  IF ~Truthy(value)
             THEN FieldValuesOf(Tail(fields), values_dict, field_values)
             ELSE IF ~IsSequenceOrInt(value)
             THEN Raised(ValueError(field))
             ELSE FieldValuesOf(Tail(fields), values_dict,
                      Append(field_values, field \o ":" \o Str(value)))

GenerateHashIndexKey(obj_type, fields, values_dict, obj_id) ==
    IF fields # <<>> /\ values_dict # <<>>
    THEN LET r == FieldValuesOf(fields, values_dict, <<>>)
         IN  IF r.st = "raise" THEN r
             ELSE IF r.val # <<>>
             THEN LET obj_str == IF Truthy(obj_id)
                                 THEN obj_type \o ":" \o Str(obj_id)
                                 ELSE obj_type
                  IN  Returned(StrV(obj_str \o ":" \o Join(r.val, ":")))
             ELSE Returned(None)
    ELSE Returned(None)

\* Record.get_hash_index_key
GetHashIndexKey(c, obj, seed) ==
    LET key_fields == IF c.hash_index_fields # <<>> THEN c.hash_index_fields
                      ELSE c.fields
        named == SelectSeq(key_fields, LAMBDA key : key \in SeqToSet(c.slots))
        slots_dict == [i \in 1..Len(named) |->
                          Item(named[i], Get(obj.attrs, named[i], None))]
        value_dict == CopyRecord(c, obj, slots_dict, seed)
    IN  IF value_dict.st = "raise" THEN value_dict
        ELSE GenerateHashIndexKey(c.name, key_fields, value_dict.val.items, None)

-----------------------------------------------------------------------------
(* json *)

DateTimeV(date, time, microsecond) ==
    [t |-> "datetime", date |-> date, time |-> time, us |-> microsecond]
DateV(date) == [t |-> "date", date |-> date]
\* a Record held as a value: its type and the instance
RecordV(c, obj) == [t |-> "record", cls |-> c, obj |-> obj]

\* _convert_datetime
ConvertDatetime(val) ==
    IF val.t = "datetime" THEN StrV(val.date \o "T" \o val.time)
    ELSE IF val.t = "date" THEN StrV(val.date)
    ELSE val

\* _convert_list_datetime
ConvertListDatetime(lst) ==
    ListV([i \in 1..Len(lst) |-> ConvertDatetime(lst[i])])

\* the first outcome that raised, if any
FirstRaised(outs) ==
    outs[CHOOSE i \in 1..Len(outs) :
            /\ outs[i].st = "raise"
            /\ \A j \in 1..(i - 1) : outs[j].st = "return"]

AnyRaised(outs) == \E i \in 1..Len(outs) : outs[i].st = "raise"

\* _convert_dict_datetime: the dict, or what copy_record of a nested Record
\* raised
RECURSIVE ConvertDictDatetime(_, _)
ConvertDictDatetime(inputdict, seed) ==
    LET conv(val) ==
            CASE val.t = "list" -> Returned(ConvertListDatetime(val.xs))
              [] val.t = "tuple" -> Returned(ConvertListDatetime(val.xs))
              [] val.t = "dict" ->
                    LET r == ConvertDictDatetime(val.m, seed)
                    IN  IF r.st = "raise" THEN r ELSE Returned(DictV(r.val))
              [] val.t = "record" ->
                    LET cp == CopyRecord(val.cls, val.obj, <<>>, seed)
                    IN  IF cp.st = "raise" THEN cp
                        ELSE LET r == ConvertDictDatetime(cp.val.items, seed)
                             IN  IF r.st = "raise" THEN r
                                 ELSE Returned(DictV(r.val))
              [] OTHER -> Returned(ConvertDatetime(val))
        outs == [i \in 1..Len(inputdict) |-> conv(inputdict[i].v)]
    IN  IF AnyRaised(outs) THEN FirstRaised(outs)
        ELSE Returned([i \in 1..Len(inputdict) |->
                          Item(inputdict[i].k, outs[i].val)])

AttributeError(type) ==
    [exc |-> "AttributeError", kind |-> "copy_record", plural |-> FALSE,
     names |-> <<type>>]

\* faulty variant: default also puts the side attributes in the dict
JsonDefaultWithAttrs(v, seed) ==
    IF v.t # "record" THEN Raised(AttributeError(v.t))
    ELSE LET r == ConvertDictDatetime(v.obj.record.items, seed)
         IN  IF r.st = "raise" THEN r
             ELSE Returned(DictV(v.obj.attrs \o r.val))

\* RecordJSONEncoder.default(record): the dict to encode in its place, or
\* what record.copy_record raised (AttributeError when it is not a Record)
JsonDefault(v, seed) ==
    IF v.t # "record" THEN Raised(AttributeError(v.t))
    ELSE LET rdict == CopyRecord(v.cls, v.obj, <<>>, seed)
         IN  IF rdict.st = "raise" THEN rdict
             ELSE LET r == ConvertDictDatetime(rdict.val.items, seed)
                  IN  IF r.st = "raise" THEN r ELSE Returned(DictV(r.val))

\* JSONEncoder.encode with RecordJSONEncoder.default for the objects json
\* does not know: the text, or what default raised
RECURSIVE JsonEncode(_, _)
JsonEncode(v, seed) ==
    CASE v.t = "none" -> Returned("null")
      [] v.t = "bool" -> Returned(IF v.b THEN "true" ELSE "false")
      [] v.t = "int" -> Returned(ToString(v.i))
      [] v.t = "float" -> Returned(ToString(v.f) \o ".0")
      [] v.t = "str" -> Returned("\"" \o v.s \o "\"")
      [] v.t \in {"list", "tuple"} ->
            LET outs == [i \in 1..Len(v.xs) |-> JsonEncode(v.xs[i], seed)]
            IN  IF AnyRaised(outs) THEN FirstRaised(outs)
                ELSE Returned("[" \o Join([i \in 1..Len(outs) |-> outs[i].val],
                                          ", ") \o "]")
      [] v.t = "dict" ->
            LET outs == [i \in 1..Len(v.m) |-> JsonEncode(v.m[i].v, seed)]
            IN  IF AnyRaised(outs) THEN FirstRaised(outs)
                ELSE Returned("{" \o Join([i \in 1..Len(outs) |->
                                  "\"" \o v.m[i].k \o "\": " \o outs[i].val],
                                          ", ") \o "}")
      [] OTHER ->
            LET r == JsonDefault(v, seed)
            IN  IF r.st = "raise" THEN r ELSE JsonEncode(r.val, seed)

\* Record.json
Json(c, obj, seed) == JsonEncode(RecordV(c, obj), seed)

-----------------------------------------------------------------------------
(* Construction *)

\* Record.__init__(self, **kwargs)
RecordInit(c, obj, kwargs, seed) ==
    LET o1 == IF ~c.require_all_fields
              THEN SetAttr(obj, "require_all_fields", BoolV(FALSE)).obj
              ELSE obj
        r == SetRecord(c, o1, kwargs, seed)
    IN  IF r.st = "raise"
        THEN [obj |-> o1, out |-> r]
        ELSE [obj |-> [o1 EXCEPT !.record = r.val, !.initialized = TRUE],
              out |-> Returned(None)]

\* TstRecord.__init__(self, service, test, **kwargs)
TstRecordInit(c, obj, service, test, kwargs, seed) ==
    LET o1 == SetAttr(obj, "service", service).obj
        o2 == SetAttr(o1, "test", test).obj
    IN  RecordInit(c, o2, kwargs, seed)

NoCall == [fn |-> "none"]
NoResult == [op |-> "none"]

\* _set_record iterates a set only in its checks against `fields`
SeedsOf(c) == IF c.fields = <<>> THEN {0} ELSE Seeds

Init ==
    /\ cls \in Classes
    /\ rec = NoRecord
    /\ last = NoResult
    /\ call = NoCall

\* cls(service, test, **kwargs): the name is bound only when __init__ returns
Construct ==
    /\ rec = NoRecord
    /\ last = NoResult
    /\ \E service \in ServiceValues, test \in TestValues,
          kwargs \in MappingsOver(FieldNames, FieldValues, MaxKwargs),
          seed \in SeedsOf(cls) :
          LET r == TstRecordInit(cls, NewObject, service, test, kwargs, seed)
          IN  /\ rec' = IF r.out.st = "return" THEN r.obj ELSE NoRecord
              /\ last' = [op |-> "init", service |-> service, test |-> test,
                          kwargs |-> kwargs, out |-> r.out]
    /\ UNCHANGED <<cls, call>>

\* the caller has the result of the call; the next call can start
Return ==
    /\ last # NoResult
    /\ last' = NoResult
    /\ UNCHANGED <<cls, rec, call>>

Live == rec # NoRecord /\ last = NoResult

\* the object a call leaves behind replaces the instance
Called(r, what) ==
    /\ rec' = r.obj
    /\ last' = what @@ [out |-> r.out]
    /\ UNCHANGED <<cls, call>>

AttrNames == {"service", "test", "require_all_fields", "owner"}

\* record.name = value
SetAttribute ==
    /\ Live
    /\ \E name \in AttrNames, value \in FieldValues :
          Called(SetAttr(rec, name, value),
                 [op |-> "setattr", name |-> name, value |-> value])

\* del record.name
DelAttribute ==
    /\ Live
    /\ \E name \in AttrNames :
          Called(DelAttr(rec, name), [op |-> "delattr", name |-> name])

\* record[name] = value
SetItemCall ==
    /\ Live
    /\ \E name \in FieldNames, value \in FieldValues :
          Called(SetItem(rec, name, value),
                 [op |-> "setitem", name |-> name, value |-> value])

\* del record[name]
DelItemCall ==
    /\ Live
    /\ \E name \in FieldNames :
          Called(DelItem(rec, name), [op |-> "delitem", name |-> name])

\* record[name], record.get(name, default), name in record
Lookup ==
    /\ Live
    /\ \E name \in FieldNames :
          \/ Called([obj |-> rec, out |-> GetItemOf(rec, name)],
                    [op |-> "getitem", name |-> name])
          \/ \E default \in FieldValues :
                Called([obj |-> rec, out |-> GetOf(rec, name, default)],
                       [op |-> "get", name |-> name, default |-> default])
          \/ Called([obj |-> rec, out |-> ContainsOf(rec, name)],
                    [op |-> "contains", name |-> name])

\* record.keys(), iter(record), record.values(), record.items(), len(record)
Views ==
    /\ Live
    /\ \/ Called([obj |-> rec, out |-> KeysOf(rec)], [op |-> "keys"])
       \/ Called([obj |-> rec, out |-> ValuesOf(rec)], [op |-> "values"])
       \/ Called([obj |-> rec, out |-> ItemsOf(rec)], [op |-> "items"])
       \/ Called([obj |-> rec, out |-> LenOf(rec)], [op |-> "len"])

\* record.copy_record(**kwargs)
CopyRecordCall ==
    /\ Live
    /\ \E kwargs \in MappingsOver(FieldNames, FieldValues, MaxOverrides),
          seed \in SeedsOf(cls) :
          Called([obj |-> SelfAfterCopy(rec, kwargs),
                  out |-> CopyRecord(cls, rec, kwargs, seed)],
                 [op |-> "copy_record", kwargs |-> kwargs])

\* record == other, hash(record): other is a second instance of the type
CompareRecord ==
    /\ Live
    /\ \E service \in OtherServiceValues, test \in TestValues,
          kwargs \in MappingsOver(OtherNames, FieldValues, MaxOverrides) :
          LET r == TstRecordInit(cls, NewObject, service, test, kwargs, 0)
              other == [t |-> "record", obj |-> r.obj]
          IN  /\ r.out.st = "return"
              /\ Called([obj |-> rec,
                         out |-> Returned([eq |-> RecordEq(rec, other),
                                           ne |-> RecordNe(rec, other),
                                           hash |-> RecordHash(rec)])],
                        [op |-> "eq", other |-> other])

\* record == other, hash(record): other is a plain dict
CompareMapping ==
    /\ Live
    /\ \E m \in MappingsOver(OtherNames, FieldValues, MaxOverrides) :
          LET other == [t |-> "dict", m |-> m]
          IN  Called([obj |-> rec,
                      out |-> Returned([eq |-> RecordEq(rec, other),
                                        ne |-> RecordNe(rec, other),
                                        hash |-> RecordHash(rec)])],
                     [op |-> "eq", other |-> other])

\* record.get_hash_index_key()
GetHashIndexKeyCall ==
    /\ Live
    /\ \E seed \in SeedsOf(cls) :
          Called([obj |-> SelfAfterCopy(rec, <<>>),
                  out |-> GetHashIndexKey(cls, rec, seed)],
                 [op |-> "get_hash_index_key"])

\* record.json()
JsonCall ==
    /\ Live
    /\ \E seed \in SeedsOf(cls) :
          Called([obj |-> SelfAfterCopy(rec, <<>>),
                  out |-> Json(cls, rec, seed)], [op |-> "json"])

Next ==
    \/ Construct
    \/ Return
    \/ SetAttribute
    \/ DelAttribute
    \/ SetItemCall
    \/ DelItemCall
    \/ Lookup
    \/ Views
    \/ CopyRecordCall
    \/ CompareRecord
    \/ CompareMapping
    \/ GetHashIndexKeyCall
    \/ JsonCall

Spec == Init /\ [][Next]_vars

-----------------------------------------------------------------------------
(* generate_hash_index_key on its own *)

GenNames == {"a", "bb", "c"}

GenValues ==
    {None, IntV(0), IntV(7), StrV(""), StrV("v"), ListV(<<>>),
     ListV(<<IntV(1)>>), DictV(<<>>), DictV(<<Item("k", IntV(1))>>),
     FloatV(0), FloatV(1)}

GenIds == {None, IntV(0), IntV(1)}

\* sequences of distinct names, at most n long
NameSeqs(names, n) ==
    UNION {{f \in [1..len -> names] :
               \A i, j \in 1..len : f[i] = f[j] => i = j} : len \in 0..n}

\* the class of the (absent) instance: none of its variables is read
NoClass ==
    [name |-> "TstRecord", slots |-> <<"service", "test">>, fields |-> <<>>,
     non_null_fields |-> <<>>, require_all_fields |-> FALSE,
     hash_index_fields |-> <<>>]

InitGen ==
    /\ cls = NoClass
    /\ rec = NoRecord
    /\ last = NoResult
    /\ call \in [fn : {"generate_hash_index_key"},
                 obj_type : {"Book"},
                 fields : NameSeqs(GenNames, MaxGenFields),
                 values_dict : MappingsOver(GenNames, GenValues, MaxGenValues),
                 obj_id : GenIds]

\* generate_hash_index_key(obj_type, fields, values_dict, obj_id)
Generate ==
    /\ call # NoCall
    /\ last = NoResult
    /\ last' = [op |-> "generate_hash_index_key",
                out |-> GenerateHashIndexKey(call.obj_type, call.fields,
                                             call.values_dict, call.obj_id)]
    /\ UNCHANGED <<cls, rec, call>>

NextGen == Generate

SpecGen == InitGen /\ [][NextGen]_vars

-----------------------------------------------------------------------------
(* json on records that hold dates, sequences, dicts and records *)

JsonLeaves ==
    {IntV(1), DateV("2001-01-01"), DateTimeV("2001-01-01", "01:01:01", 100)}

\* a TstRecord that is held as a value, with side attributes of its own
NestedRecord(v) ==
    TstRecordInit(NoClass, NewObject, StrV("n1"), StrV("n2"),
                  <<Item("k", v)>>, 0).obj

\* the leaves, and a list, a tuple, a dict and a record around every value
\* that is at most d - 1 deep
RECURSIVE JsonValuesAt(_)
JsonValuesAt(d) ==
    IF d = 0 THEN JsonLeaves
    ELSE LET inner == JsonValuesAt(d - 1)
         IN  JsonLeaves
             \cup {ListV(<<v>>) : v \in inner}
             \cup {TupleV(<<v>>) : v \in inner}
             \cup {DictV(<<Item("k", v)>>) : v \in inner}
             \cup {RecordV(NoClass, NestedRecord(v)) : v \in inner}

JsonNames == {"a", "bb"}

JsonClasses == {NoClass, [NoClass EXCEPT !.fields = <<"a", "bb", "c">>]}

InitJson ==
    /\ cls \in JsonClasses
    /\ rec = NoRecord
    /\ last = NoResult
    /\ call \in [fn : {"json"},
                 service : ServiceValues,
                 test : TestValues,
                 kwargs : MappingsOver(JsonNames, JsonValuesAt(MaxJsonDepth),
                                       MaxJsonFields)]

\* cls(service, test, **kwargs)
ConstructJson ==
    /\ rec = NoRecord
    /\ last = NoResult
    /\ LET r == TstRecordInit(cls, NewObject, call.service, call.test,
                              call.kwargs, 0)
       IN  /\ r.out.st = "return"
           /\ rec' = r.obj
           /\ last' = [op |-> "init", service |-> call.service,
                       test |-> call.test, kwargs |-> call.kwargs,
                       out |-> r.out]
    /\ UNCHANGED <<cls, call>>

\* record.json(): the text, and the dict that RecordJSONEncoder.default handed
\* to the encoder for the record itself
SerializeJson ==
    /\ rec # NoRecord
    /\ last.op = "init"
    /\ \E seed \in SeedsOf(cls) :
          last' = [op |-> "json",
                   object |-> JsonDefault(RecordV(cls, rec), seed),
                   out |-> Json(cls, SelfAfterCopy(rec, <<>>), seed)]
    /\ UNCHANGED <<cls, rec, call>>

NextJson ==
    \/ ConstructJson
    \/ SerializeJson

SpecJson == InitJson /\ [][NextJson]_vars

-----------------------------------------------------------------------------
(* Properties *)

IsValidation == last.op \in {"init", "copy_record"}

\* the mapping _set_record was given by the last call: the constructor's
\* keyword arguments, or the record's data with the overrides applied
\* (overrides win)
PlainMerge(m, kw) ==
    [i \in 1..Len(m) |->
        IF HasKey(kw, m[i].k) THEN Item(m[i].k, Get(kw, m[i].k, None)) ELSE m[i]]
    \o SelectSeq(kw, LAMBDA it : ~HasKey(m, it.k))

ValidatedInput ==
    IF last.op = "init" THEN last.kwargs
    ELSE PlainMerge(rec.record.items, last.kwargs)

NonNullSet == SeqToSet(cls.non_null_fields)
FieldSet == SeqToSet(cls.fields)

AbsentNonNull == NonNullSet \ Keys(ValidatedInput)
NullNonNull ==
    {f \in NonNullSet \cap Keys(ValidatedInput) :
        IsNone(Get(ValidatedInput, f, None))}

PassesNonNull == AbsentNonNull = {} /\ NullNonNull = {}

RaisedKind(kind) ==
    /\ last.out.st = "raise"
    /\ last.out.err.exc = "KeyError"
    /\ last.out.err.kind = kind

RaisedTypeError(what) ==
    /\ last.out.st = "raise"
    /\ last.out.err.exc = "TypeError"
    /\ last.out.err.kind = what

\* C1: on a constructed record every attribute assignment, attribute
\* deletion, item assignment and item deletion raises TypeError, whatever the
\* name or key, with the message of its own access path
C1_MutationRaises ==
    /\ last.op = "setattr" => RaisedTypeError("attribute assignment")
    /\ last.op = "delattr" => RaisedTypeError("attribute deletion")
    /\ last.op = "setitem" => RaisedTypeError("item assignment")
    /\ last.op = "delitem" => RaisedTypeError("item deletion")

\* an attribute that exists was assigned, or one that does not was deleted, or
\* a key that exists was assigned or deleted
C1_Witness ==
    \/ /\ last.op = "setattr"
       /\ HasKey(rec.attrs, last.name)
       /\ RaisedTypeError("attribute assignment")
    \/ /\ last.op = "delitem"
       /\ HasKey(rec.record.items, last.name)
       /\ RaisedTypeError("item deletion")

\* C2: once constructed, the instance (data and side attributes) is the same
\* after every call as before it
C2_Frame == [][rec # NoRecord => rec' = rec]_vars

\* copy_record has returned a mapping that differs from the record's data
C2_Witness ==
    /\ last.op = "copy_record"
    /\ last.out.st = "return"
    /\ last.out.val.items # rec.record.items
    /\ rec.initialized

\* C3: with `fields` defined, an input that passes the non-null checks and
\* has a key outside `fields` is refused with the Extra keys error
C3_UnexpectedFields ==
    (/\ IsValidation
     /\ cls.fields # <<>>
     /\ PassesNonNull
     /\ ~(Keys(ValidatedInput) \subseteq FieldSet))
    => RaisedKind("Extra keys")

\* C4: with `fields` defined and require_all_fields set, no record is
\* constructed from an input that lacks a declared field; the input is refused
\* with the Missing keys error when it passes the earlier checks
C4_MissingFields ==
    (/\ last.op = "init"
     /\ cls.fields # <<>>
     /\ cls.require_all_fields
     /\ ~(FieldSet \subseteq Keys(last.kwargs)))
    => /\ last.out.st = "raise"
       /\ (PassesNonNull /\ Keys(last.kwargs) \subseteq FieldSet)
              => RaisedKind("Missing keys")

\* C5: with non_null_fields non-empty, the error names all the absent names
\* if there are any, else all the names given null if there are any, else
\* neither error is raised
C5_NonNullErrors ==
    (IsValidation /\ NonNullSet # {})
    => IF AbsentNonNull # {}
       THEN RaisedKind("required")
            /\ SeqToSet(last.out.err.names) = AbsentNonNull
            /\ Len(last.out.err.names) = Cardinality(AbsentNonNull)
       ELSE IF NullNonNull # {}
       THEN RaisedKind("can not be None")
            /\ SeqToSet(last.out.err.names) = NullNonNull
            /\ Len(last.out.err.names) = Cardinality(NullNonNull)
       ELSE ~RaisedKind("required") /\ ~RaisedKind("can not be None")

\* two names are absent and both are named; two are null and both are named
C5_Witness ==
    /\ last.op = "init"
    /\ Cardinality(AbsentNonNull) = 2
    /\ RaisedKind("required")
    /\ last.out.err.names = <<"a", "bb">>

\* C6: in every constructed record each name of non_null_fields is a key of
\* the data and its value is not null
C6_NonNullInData ==
    rec # NoRecord
    => \A f \in NonNullSet :
          /\ HasKey(rec.record.items, f)
          /\ ~IsNone(Get(rec.record.items, f, None))

\* C7: with `fields` defined, the keys of a constructed record are `fields`
\* in declared order; a supplied field has the supplied value, a declared
\* field that was not supplied has None; keys() returns that order
C7_FieldOrder ==
    /\ (last.op = "init" /\ last.out.st = "return" /\ cls.fields # <<>>)
       => /\ KeySeq(rec.record.items) = cls.fields
          /\ \A i \in 1..Len(cls.fields) :
                rec.record.items[i].v =
                    IF cls.fields[i] \in Keys(last.kwargs)
                    THEN Get(last.kwargs, cls.fields[i], IntV(9))
                    ELSE None
    /\ (last.op = "keys" /\ cls.fields # <<>>) => last.out.val = cls.fields

\* three declared fields, two supplied with values, in the reverse of the
\* declared order
C7_Witness ==
    /\ last.op = "init"
    /\ last.out.st = "return"
    /\ cls.fields = <<"a", "bb", "c">>
    /\ KeySeq(last.kwargs) = <<"c", "a">>
    /\ ~IsNone(last.kwargs[1].v)
    /\ ~IsNone(last.kwargs[2].v)

OtherItems == IF last.other.t = "record" THEN last.other.obj.record.items
              ELSE last.other.m

\* C8: a record equals another record or a plain mapping exactly when the
\* key/value pairs are the same, whatever the side attributes and the order
\* of the items, and then the hashes are the same too
C8_EqualityOnData ==
    last.op = "eq"
    => LET same == \A k \in Keys(rec.record.items) \cup Keys(OtherItems) :
                      /\ HasKey(rec.record.items, k)
                      /\ HasKey(OtherItems, k)
                      /\ Get(rec.record.items, k, None) = Get(OtherItems, k, None)
       IN  /\ last.out.val.eq = same
           /\ last.out.val.ne = ~same
           /\ same => last.out.val.hash = FrozenHash(OtherItems)

\* equal to a record with another `service`, whose items are in another order
C8_Witness ==
    /\ last.op = "eq"
    /\ last.other.t = "record"
    /\ last.other.obj.attrs # rec.attrs
    /\ last.other.obj.record.items # rec.record.items
    /\ Len(rec.record.items) = 2
    /\ last.out.val.eq
    /\ last.out.val.hash = RecordHash(last.other.obj)

\* C9: copy_record(**overrides) has the outcome of validating the record's
\* data with the overrides applied; overriding a non-null field with None
\* raises the can-not-be-None error, and adding a key outside `fields` raises
\* the Extra keys error
C9_CopyRevalidates ==
    last.op = "copy_record"
    => /\ \E seed \in Seeds :
             last.out = SetRecord(cls, rec, ValidatedInput, seed)
       /\ \A f \in NonNullSet :
             last.kwargs = <<Item(f, None)>> => RaisedKind("can not be None")
       /\ \A k \in FieldNames \ FieldSet, v \in FieldValues \ {None} :
             (cls.fields # <<>> /\ last.kwargs = <<Item(k, v)>>)
                 => RaisedKind("Extra keys")

\* the part of C9 that does not depend on which records exist
C9_SameAsValidation ==
    last.op = "copy_record"
    => \E seed \in Seeds : last.out = SetRecord(cls, rec, ValidatedInput, seed)

\* null or empty: None, the empty string, an empty list, tuple, set or dict
IsNullOrEmpty(v) ==
    \/ v.t = "none"
    \/ v.t = "str" /\ v.s = ""
    \/ v.t \in {"list", "tuple", "set"} /\ v.xs = <<>>
    \/ v.t = "dict" /\ v.m = <<>>

\* the names in `fields` whose looked-up value is not null/empty, in order
Survivors ==
    SelectSeq(call.fields,
              LAMBDA f : ~IsNullOrEmpty(Get(call.values_dict, f, None)))

\* C10: generate returns None when `fields` is empty, `values` is empty or no
\* field has a value that is not null/empty; otherwise the prefix and one
\* "<field>:<value>" segment for each such field, in the order of `fields`,
\* joined by ":"; a field that is skipped raises nothing
C10_GenerateKey ==
    last.op = "generate_hash_index_key"
    => LET segments == [i \in 1..Len(Survivors) |->
                           Survivors[i] \o ":"
                               \o Str(Get(call.values_dict, Survivors[i], None))]
           prefixes == {call.obj_type,
                        call.obj_type \o ":" \o Str(call.obj_id)}
       IN  /\ last.out.st = "return"
              => IF call.fields = <<>> \/ call.values_dict = <<>>
                    \/ Survivors = <<>>
                 THEN last.out.val = None
                 ELSE \E prefix \in prefixes :
                         last.out.val = StrV(prefix \o ":" \o Join(segments, ":"))
           /\ last.out.st = "raise" => Survivors # <<>>

\* the segments "<field>:<value>" of the names of `fields` that are in S, in
\* the order of `fields`, joined by ":"
SegmentsOf(S) ==
    LET kept == SelectSeq(call.fields, LAMBDA f : f \in S)
    IN  Join([i \in 1..Len(kept) |->
                 kept[i] \o ":" \o Str(Get(call.values_dict, kept[i], None))],
             ":")

ReturnedKey ==
    /\ last.op = "generate_hash_index_key"
    /\ last.out.st = "return"
    /\ ~IsNone(last.out.val)

\* C11: a key generated with an integer obj_id starts with
\* "<obj_type>:<obj_id>:", whatever the integer; a key generated without an
\* obj_id starts with "<obj_type>:" and a field segment
C11_IdPrefix ==
    ReturnedKey
    => \E S \in SUBSET SeqToSet(call.fields) :
          last.out.val =
              StrV((IF IsNone(call.obj_id) THEN call.obj_type
                    ELSE call.obj_type \o ":" \o Str(call.obj_id))
                   \o ":" \o SegmentsOf(S))

\* the names of `fields`, in order, whose looked-up value is not null/empty
\* and is neither a string, a list or a tuple nor an integer
Unordered ==
    SelectSeq(call.fields,
              LAMBDA f : LET v == Get(call.values_dict, f, None)
                         IN  /\ ~IsNullOrEmpty(v)
                             /\ v.t \notin {"str", "list", "tuple", "int", "bool"})

\* C12: generate raises ValueError exactly when some name of `fields` has a
\* value that is not null/empty and is neither an ordered sequence nor an
\* integer; the error names the first such field and no key is returned
C12_UnorderedValue ==
    last.op = "generate_hash_index_key"
    => IF Unordered # <<>>
       THEN last.out = Raised(ValueError(Unordered[1]))
       ELSE last.out.st = "return"

\* hash_index_fields if set, else fields, else the empty list
KeyFields ==
    IF cls.hash_index_fields # <<>> THEN cls.hash_index_fields ELSE cls.fields

\* the record's data plus the value of every side attribute named in KeyFields
KeyLookup ==
    LET named == SelectSeq(rec.attrs, LAMBDA it : it.k \in SeqToSet(KeyFields))
    IN  PlainMerge(rec.record.items, named)

\* C13: get_hash_index_key returns what generate_hash_index_key returns for
\* the type's name, KeyFields and KeyLookup, for every record type; a side
\* attribute named in hash_index_fields does not make the call fail
C13_HashIndexKey ==
    last.op = "get_hash_index_key"
    => last.out = GenerateHashIndexKey(cls.name, KeyFields, KeyLookup, None)

\* a value with every date and date-time under it turned into its ISO string,
\* every tuple into a list and every record into the dict of its data, at
\* every depth
RECURSIVE Normalized(_)
Normalized(v) ==
    CASE v.t = "datetime" -> StrV(v.date \o "T" \o v.time)
      [] v.t = "date" -> StrV(v.date)
      [] v.t \in {"list", "tuple"} ->
            ListV([i \in 1..Len(v.xs) |-> Normalized(v.xs[i])])
      [] v.t = "dict" ->
            DictV([i \in 1..Len(v.m) |-> Item(v.m[i].k, Normalized(v.m[i].v))])
      [] v.t = "record" ->
            DictV([i \in 1..Len(v.obj.record.items) |->
                      Item(v.obj.record.items[i].k,
                           Normalized(v.obj.record.items[i].v))])
      [] OTHER -> v

\* C14: json() returns the text of the record's data with every element of a
\* list or tuple normalized at every depth: no date or date-time is left
\* under a sequence
C14_SequencesNormalized ==
    last.op = "json"
    => last.out = JsonEncode(Normalized(RecordV(cls, rec)), 0)

\* a value with every record that is a field value (of the record, of a dict
\* in it or of a record in it) replaced by the plain dict of its data
RECURSIVE Expanded(_)
Expanded(v) ==
    CASE v.t = "dict" ->
            DictV([i \in 1..Len(v.m) |-> Item(v.m[i].k, Expanded(v.m[i].v))])
      [] v.t = "record" ->
            DictV([i \in 1..Len(v.obj.record.items) |->
                      Item(v.obj.record.items[i].k,
                           Expanded(v.obj.record.items[i].v))])
      [] OTHER -> v

\* the record with other side attributes and the same data
Twin(service, test) ==
    TstRecordInit(cls, NewObject, service, test, rec.record.items, 0).obj

\* C15: json() depends on the data only: a record with other side attributes
\* and the same data has the same outcome, the keys of the object that is
\* encoded are the keys of the data, and a record held as a field value is
\* encoded as the plain dict of its data would be
C15_DataOnly ==
    last.op = "json"
    => /\ \A service \in OtherServiceValues, test \in {StrV("t2")} :
             Json(cls, Twin(service, test), 0) = last.out
       /\ last.object.st = "return"
             => KeySeq(last.object.val.m) = KeySeq(rec.record.items)
       /\ last.out =
             Json(cls, [rec EXCEPT !.record.items = Expanded(DictV(@)).m], 0)

\* a record that holds a record with side attributes of its own was
\* serialized, and so was its twin
C15_Witness ==
    /\ last.op = "json"
    /\ last.out.st = "return"
    /\ \E i \in 1..Len(rec.record.items) :
          /\ rec.record.items[i].v.t = "record"
          /\ rec.record.items[i].v.obj.attrs # <<>>
    /\ rec.attrs # <<>>
    /\ Twin(StrV("s2"), StrV("t2")).attrs # rec.attrs

\* C16: the non-null error messages have the plural wording exactly when two
\* or more names are listed, whatever the names
C16_Pluralized ==
    (IsValidation /\ (RaisedKind("required") \/ RaisedKind("can not be None")))
    => (last.out.err.plural <=> Len(last.out.err.names) >= 2)

\* C17: every validation error lists the offending names sorted
C17_NamesSorted ==
    (/\ IsValidation
     /\ \/ RaisedKind("required")
        \/ RaisedKind("can not be None")
        \/ RaisedKind("Extra keys")
        \/ RaisedKind("Missing keys"))
    => last.out.err.names = Sorted(SeqToSet(last.out.err.names))

\* C18: an input that breaks a non-null constraint and has a key outside
\* `fields` is refused with the non-null error: the required error if a name
\* is absent, else the can-not-be-None error
C18_NonNullFirst ==
    (/\ IsValidation
     /\ cls.fields # <<>>
     /\ ~PassesNonNull
     /\ ~(Keys(ValidatedInput) \subseteq FieldSet))
    => IF AbsentNonNull # {} THEN RaisedKind("required")
       ELSE RaisedKind("can not be None")

\* the input names every declared field and a key that is neither declared
\* nor a non-null name, and lacks a non-null name: _set_record would raise
\* Extra keys for the keys alone, and raises the required error
C18_Witness ==
    /\ last.op = "init"
    /\ cls.fields # <<>>
    /\ ProperSuperset(Keys(last.kwargs), FieldSet)
    /\ (Keys(last.kwargs) \ FieldSet) \cap NonNullSet = {}
    /\ AbsentNonNull # {}
    /\ RaisedKind("required")

====
